---- MODULE Spec2Model ----
(***************************************************************************)
(* Synchronous data-parallel training group (SyncGraphGroup):              *)
(* N device replicas, N parameter shards, a compute phase and a            *)
(* reduce/update/broadcast phase per step, optional moving-average shadow  *)
(* shards, and the save / validate / load operations around them.          *)
(*                                                                         *)
(* Tensor elements are exact rationals <<num, den>> (den > 0, lowest       *)
(* terms).  The one float computation whose rounding decides a property,   *)
(* the shard size ceil(totalSize / (float)N), is modelled with its 24-bit  *)
(* significand.                                                            *)
(***************************************************************************)
EXTENDS Integers, Sequences, FiniteSets, TLC

\* ------------------------------------------------------------------ bounds
MaxDevices == 3
MaxParams == 3
MaxSteps == 2
\* the pure shard-table specification: small sizes, and sizes around 2^24
MaxShardDevices == 4
MaxShardParams == 12
MaxOver == 3

\* significand width of float, the type of the division in the shard size
FloatMantissaBits == 24

\* ---------------------------------------------------------------- helpers
Min(a, b) == IF a <= b THEN a ELSE b

Pow2(n) == 2 ^ n

RECURSIVE GCD(_, _)
GCD(a, b) == IF b = 0 THEN a ELSE GCD(b, a % b)

Abs(a) == IF a < 0 THEN -a ELSE a

\* rationals in lowest terms
RNorm(n, d) == LET g == GCD(Abs(n), d) IN <<n \div g, d \div g>>
RInt(n) == <<n, 1>>
RAdd(x, y) == RNorm(x[1] * y[2] + y[1] * x[2], x[2] * y[2])
RSub(x, y) == RNorm(x[1] * y[2] - y[1] * x[2], x[2] * y[2])
RMul(x, y) == RNorm(x[1] * y[1], x[2] * y[2])
RLess(x, y) == x[1] * y[2] < y[1] * x[2]
RMin(x, y) == IF RLess(y, x) THEN y ELSE x
ROne == <<1, 1>>
RZero == <<0, 1>>

RECURSIVE SumSeq(_)
SumSeq(s) == IF s = <<>> THEN 0 ELSE Head(s) + SumSeq(Tail(s))

RECURSIVE Concat(_)
Concat(ss) == IF ss = <<>> THEN <<>> ELSE Head(ss) \o Concat(Tail(ss))

\* Tensor::subtensor(pos, size): elements pos .. pos+size-1 (0-based offset)
Subtensor(t, pos, size) == [j \in 1..size |-> t[pos + j]]

\* dst->subtensor(pos, Len(src))->copyFrom(src)
CopyInto(dst, pos, src) ==
  [j \in 1..Len(dst) |->
     IF j > pos /\ j <= pos + Len(src) THEN src[j - pos] ELSE dst[j]]

\* ---------------------------------------------------- float arithmetic
\* floor(log2(a / b)) for a >= b > 0
RECURSIVE Log2Floor(_, _)
Log2Floor(a, b) == IF a < 2 * b THEN 0 ELSE 1 + Log2Floor(a, 2 * b)

\* a / b rounded to the nearest integer, ties to even
RoundHalfEven(a, b) ==
  LET q == a \div b
      r == a % b
  IN  IF 2 * r < b THEN q
      ELSE IF 2 * r > b THEN q + 1
      ELSE IF q % 2 = 0 THEN q ELSE q + 1

\* (float)x for an int x >= 0: x rounded to FloatMantissaBits significant bits
FloatOfInt(x) ==
  IF x < Pow2(FloatMantissaBits) THEN x
  ELSE LET e == Log2Floor(x, 1)
           ulp == Pow2(e - (FloatMantissaBits - 1))
       IN  RoundHalfEven(x, ulp) * ulp

\* ceil(a / (float)b) as the code computes it, for ints a >= 0, b >= 1: a is
\* converted to float, the quotient is rounded to float, then ceil and the
\* conversion to int are exact.
CeilFloatDiv(a, b) ==
  LET fa == FloatOfInt(a)
  IN  IF fa = 0 THEN 0
      ELSE IF fa < b
      THEN 1
      ELSE LET e == Log2Floor(fa, b)
               sh == e - (FloatMantissaBits - 1)
           IN  IF sh >= 0
               THEN RoundHalfEven(fa, b * Pow2(sh)) * Pow2(sh)
               ELSE LET m == RoundHalfEven(fa * Pow2(-sh), b)
                        u == Pow2(-sh)
                    IN  (m + u - 1) \div u

\* ------------------------------------------------------------ shard table
\* mutant: the division truncates, the ceiling is lost
ShardSizeFloor(total, n) == total \div n

\* shardSize_ = ceil(totalSize / (float)devices_.size())
ShardSizeOf(total, n) == CeilFloatDiv(total, n)

\* the device loop: __size__ = min(shardSize_, totalSize); pos += __size__;
\* totalSize -= __size__.  Result: one record [pos, size] per device.
RECURSIVE ShardLoop(_, _, _, _)
ShardLoop(k, pos, remaining, shardSize) ==
  IF k = 0 THEN <<>>
  ELSE LET size == Min(shardSize, remaining)
       IN  <<[pos |-> pos, size |-> size]>>
             \o ShardLoop(k - 1, pos + size, remaining - size, shardSize)

ShardTable(total, n) == ShardLoop(n, 0, total, ShardSizeOf(total, n))


\* ------------------------------------------------------------------ state
VARIABLES
  nDevices,      \* devices_.size()
  totalSize,     \* number of parameters of the model the builders build
  movingAvg_,    \* option "moving-average"
  mvDecay_,      \* option "moving-decay"
  first_,
  shardSize_,
  shardTable,    \* per shard: the offset and size the first step gave it
  graphVals,     \* graphs_[i]->params()->vals(), <<>> until the graph has parameters
  graphGrads,    \* graphs_[i]->params()->grads()
  params_,       \* shard parameter buffers
  grads_,        \* shard gradient accumulators
  tmpTensors_,   \* shard scratch buffers
  paramsAvg_,    \* shadow (moving-average) shards
  scheduler_,    \* "null" or "set"
  numberOfBatches,  \* scheduler_->numberOfBatches()
  reported,      \* the costs handed to scheduler_->update in the current step
  file,          \* the checkpoint at the configured model path
  pc,            \* position of the calling thread
  idx,           \* its loop counter
  pos,           \* its running offset in the reduce-phase enqueue loop
  batches,       \* set of replicas whose sub-batch of the current step is non-empty
  costs,         \* std::vector<float> costs of the current step
  computeTask,   \* state of each task of the compute-phase pool
  reduceTask,    \* state of each task of the reduce-phase pool
  reducePos,     \* the pos argument each reduce task was enqueued with
  saveIdx,       \* replica being saved
  saveRet,       \* where save() returns to
  steps,         \* number of update() calls started
  wrote,         \* per task of the running phase: the buffer elements it has written
  gradReads,     \* <<shard, replica>> pairs: replica gradient buffers read by reduce tasks
  optLog,        \* the optimizer invocations of the current step
  avgLog,        \* the moving-average updates of the current step
  serialized,    \* parameter vectors handed to the serializer by the last save()
  preBranch,     \* replica 0's parameters when the running save/validation branch started
  validated,     \* the parameter vectors validate() saw in the current step
  loadCall,      \* the arguments and the state before it of the load() about to return
  events         \* the scheduler callbacks of the current step, in order

vars == <<nDevices, totalSize, movingAvg_, mvDecay_, first_, shardSize_, shardTable, graphVals,
          graphGrads, params_, grads_, tmpTensors_, paramsAvg_, scheduler_,
          numberOfBatches, reported, file, pc, idx, pos, batches, costs,
          computeTask, reduceTask, reducePos, saveIdx, saveRet, steps, wrote,
          gradReads, optLog, avgLog, serialized, preBranch, validated, loadCall,
          events>>

Devices == 1..nDevices

\* ------------------------------------------------- external collaborators
\* parameter initialisation of builders_[i]->build on a graph without parameters
InitVals(i) == [j \in 1..totalSize |-> RInt(10 * i + j)]

\* the gradient graph->backward() leaves in replica i's gradient buffer at step s
Gradient(s, i) == [j \in 1..totalSize |-> RInt(4 * s + 2 * i + j)]

\* costNode->scalar() of replica i at step s
CostOf(s, i) == 2 + s + 3 * i

\* contents of a freshly allocated tensor
Unset == <<-1, 1>>
Alloc(size) == [j \in 1..size |-> Unset]

\* the checkpoint a run may find at the model path when it starts
FileInit == [vals |-> [j \in 1..totalSize |-> RInt(50 + j)], batches |-> 1]

\* OptimizerBase::update(params, grads)
OptimizerUpdate(p, g) == [j \in 1..Len(p) |-> RSub(p[j], g[j])]

\* the configured decays the runs are started with
DecayChoices == {<<1, 1>>, <<1, 20>>}


\* ------------------------------------------------------------------- Init
\* the state after construction: N graphs without parameters, no shards
Config ==
  /\ nDevices \in 1..MaxDevices
  /\ totalSize \in 1..MaxParams
  /\ movingAvg_ \in BOOLEAN
  /\ mvDecay_ \in DecayChoices
  /\ ~movingAvg_ => mvDecay_ = <<1, 1>>

ConstructedState ==
  /\ first_ = TRUE
  /\ shardSize_ = 0
  /\ shardTable = <<>>
  /\ graphVals = [i \in Devices |-> <<>>]
  /\ graphGrads = [i \in Devices |-> <<>>]
  /\ params_ = <<>>
  /\ grads_ = <<>>
  /\ tmpTensors_ = <<>>
  /\ paramsAvg_ = <<>>
  /\ scheduler_ = "null"
  /\ numberOfBatches = 0
  /\ reported = <<>>
  /\ pc = "idle"
  /\ idx = 0
  /\ pos = 0
  /\ batches = {}
  /\ costs = [i \in Devices |-> 0]
  /\ computeTask = [i \in Devices |-> "none"]
  /\ reduceTask = [i \in Devices |-> "none"]
  /\ reducePos = [i \in Devices |-> 0]
  /\ saveIdx = 1
  /\ saveRet = "idle"
  /\ steps = 0
  /\ wrote = [i \in Devices |-> {}]
  /\ gradReads = {}
  /\ optLog = [k \in Devices |-> <<>>]
  /\ avgLog = [k \in Devices |-> <<>>]
  /\ serialized = <<>>
  /\ preBranch = <<>>
  /\ validated = <<>>
  /\ loadCall = <<>>
  /\ events = <<>>

Init == Config /\ ConstructedState /\ file = FileInit

\* ------------------------------------------------------------ setScheduler
SetScheduler ==
  /\ pc = "idle"
  /\ scheduler_ = "null"
  /\ scheduler_' = "set"
  /\ UNCHANGED <<nDevices, totalSize, movingAvg_, mvDecay_, first_, shardSize_,
                 shardTable, graphVals, graphGrads, params_, grads_, tmpTensors_,
                 paramsAvg_, numberOfBatches, reported, file, pc, idx, pos, batches,
                 costs, computeTask, reduceTask, reducePos, saveIdx, saveRet, steps,
                 wrote, gradReads, optLog, avgLog, serialized, preBranch, validated,
                 loadCall, events>>

\* -------------------------------------------------------------------- load
\* builders_[i]->load(graph, init): the checkpoint's parameters into the graph
LoadGraph(vals) == IF file.vals = <<>> THEN vals ELSE file.vals

\* mutant: the test for the checkpoint file is missing
ReloadsUnchecked(noReload, exists) == ~noReload

\* if(!options_->get<bool>("no-reload")) ... if(boost::filesystem::exists(init))
Reloads(noReload, exists) == ~noReload /\ exists

\* load() is the start-up step of a run: it is called before the first update()
Load ==
  /\ pc = "idle"
  /\ first_
  /\ \E noReload \in BOOLEAN, exists \in BOOLEAN :
       /\ loadCall' = <<[noReload |-> noReload, exists |-> exists,
                         batches |-> numberOfBatches, vals |-> graphVals]>>
       /\ IF Reloads(noReload, exists)
          THEN /\ numberOfBatches' =
                    IF scheduler_ = "set" THEN file.batches ELSE numberOfBatches
               /\ graphVals' = [i \in Devices |-> LoadGraph(graphVals[i])]
          ELSE UNCHANGED <<numberOfBatches, graphVals>>
  /\ pc' = "loaded"
  /\ UNCHANGED <<nDevices, totalSize, movingAvg_, mvDecay_, first_, shardSize_,
                 shardTable, graphGrads, params_, grads_, tmpTensors_, paramsAvg_,
                 scheduler_, reported, file, idx, pos, batches, costs, computeTask,
                 reduceTask, reducePos, saveIdx, saveRet, steps, wrote, gradReads,
                 optLog, avgLog, serialized, preBranch, validated, events>>

\* load() returns
LoadReturn ==
  /\ pc = "loaded"
  /\ pc' = "idle"
  /\ loadCall' = <<>>
  /\ UNCHANGED <<nDevices, totalSize, movingAvg_, mvDecay_, first_, shardSize_,
                 shardTable, graphVals, graphGrads, params_, grads_, tmpTensors_,
                 paramsAvg_, scheduler_, numberOfBatches, reported, file, idx, pos,
                 batches, costs, computeTask, reduceTask, reducePos, saveIdx,
                 saveRet, steps, wrote, gradReads, optLog, avgLog, serialized,
                 preBranch, validated, events>>

\* ------------------------------------------------- update: the first_ block
\* update(batch) -> execute(batch): batch->split(N); costs is set up when the
\* first_ block is skipped or done
Update ==
  /\ pc = "idle"
  /\ steps < MaxSteps
  /\ \E nonEmpty \in SUBSET Devices : batches' = nonEmpty
  /\ steps' = steps + 1
  /\ pc' = IF first_ THEN "build" ELSE "compute"
  /\ idx' = 1
  /\ costs' = [i \in Devices |-> 0]
  /\ UNCHANGED <<nDevices, totalSize, movingAvg_, mvDecay_, first_, shardSize_,
                 shardTable, graphVals, graphGrads, params_, grads_, tmpTensors_,
                 paramsAvg_, scheduler_, numberOfBatches, reported, file, pos,
                 computeTask, reduceTask, reducePos, saveIdx, saveRet, wrote,
                 gradReads, optLog, avgLog, serialized, preBranch, validated,
                 loadCall, events>>

\* builders_[i]->build(graphs_[i], batches[0]); forward: the graph gets its
\* parameters unless it has them
Built(i) == IF graphVals[i] = <<>> THEN InitVals(i) ELSE graphVals[i]

\* if(i > 0) graphs_[i] vals copyFrom graphs_[0] vals
FirstCopy(i) == IF i > 1 THEN graphVals[1] ELSE Built(i)

BuildGraph ==
  /\ pc = "build"
  /\ graphVals' = [graphVals EXCEPT ![idx] = FirstCopy(idx)]
  /\ graphGrads' = [graphGrads EXCEPT ![idx] = Alloc(Len(Built(idx)))]
  /\ IF idx < nDevices
     THEN /\ idx' = idx + 1
          /\ pc' = pc
     ELSE /\ idx' = 1
          /\ pc' = "shards"
  /\ UNCHANGED <<nDevices, totalSize, movingAvg_, mvDecay_, first_, shardSize_,
                 shardTable, params_, grads_, tmpTensors_, paramsAvg_, scheduler_,
                 numberOfBatches, reported, file, pos, batches, costs, computeTask,
                 reduceTask, reducePos, saveIdx, saveRet, steps, wrote, gradReads,
                 optLog, avgLog, serialized, preBranch, validated, loadCall, events>>

\* if(params_.size() == 0): the shard table, the shard buffers, and each
\* shard's parameters copied from graphs_[0] at the running offset
InitShards ==
  /\ pc = "shards"
  /\ IF Len(params_) = 0
     THEN LET table == ShardTable(Len(graphVals[1]), nDevices)
          IN  /\ shardSize_' = ShardSizeOf(Len(graphVals[1]), nDevices)
              /\ shardTable' = table
              /\ params_' = [k \in Devices |->
                               Subtensor(graphVals[1], table[k].pos, table[k].size)]
              /\ grads_' = [k \in Devices |-> Alloc(table[k].size)]
              /\ tmpTensors_' = [k \in Devices |-> Alloc(table[k].size)]
     ELSE UNCHANGED <<shardSize_, shardTable, params_, grads_, tmpTensors_>>
  /\ pc' = "avg"
  /\ UNCHANGED <<nDevices, totalSize, movingAvg_, mvDecay_, first_, graphVals,
                 graphGrads, paramsAvg_, scheduler_, numberOfBatches, reported, file,
                 idx, pos, batches, costs, computeTask, reduceTask, reducePos,
                 saveIdx, saveRet, steps, wrote, gradReads, optLog, avgLog,
                 serialized, preBranch, validated, loadCall, events>>

\* the shadow loop: __size__ = min(shardSize_, totalSize); totalSize -= __size__;
\* paramAvg of that size, copyFrom(params_[i++])
\* mutant: the shadow shard is allocated and not filled
AvgAllocated(k, size) == Alloc(size)

\* allocate(paramAvg, {1, __size__}); paramAvg->copyFrom(params_[i++])
AvgCopied(k, size) == CopyInto(Alloc(size), 0, params_[k])

RECURSIVE AvgLoop(_, _)
AvgLoop(k, remaining) ==
  IF k > nDevices THEN <<>>
  ELSE LET size == Min(shardSize_, remaining)
       IN  <<AvgCopied(k, size)>> \o AvgLoop(k + 1, remaining - size)

\* mutant: the flag is left set
FirstKept == TRUE

\* first_ = false
FirstCleared == FALSE

InitAvg ==
  /\ pc = "avg"
  /\ paramsAvg_' = IF movingAvg_ /\ Len(paramsAvg_) = 0
                   THEN AvgLoop(1, Len(graphVals[1]))
                   ELSE paramsAvg_
  /\ first_' = FirstCleared
  /\ pc' = "compute"
  /\ UNCHANGED <<nDevices, totalSize, movingAvg_, mvDecay_, shardSize_, shardTable,
                 graphVals, graphGrads, params_, grads_, tmpTensors_, scheduler_,
                 numberOfBatches, reported, file, idx, pos, batches, costs,
                 computeTask, reduceTask, reducePos, saveIdx, saveRet, steps, wrote,
                 gradReads, optLog, avgLog, serialized, preBranch, validated,
                 loadCall, events>>


\* ---------------------------------------------------------- fetchParams
\* pos = 0; for each device idx: oldParams->subtensor(pos, params[idx]->size())
\* ->copyFrom(params[idx]); pos += shardSize_.  The copying threads are joined
\* before the function returns.
FetchPos(k) == (k - 1) * shardSize_

RECURSIVE FetchLoop(_, _, _)
FetchLoop(old, params, k) ==
  IF k > nDevices THEN old
  ELSE FetchLoop(CopyInto(old, FetchPos(k), params[k]), params, k + 1)

FetchParams(old, params) == FetchLoop(old, params, 1)

\* ------------------------------------------------------ the compute phase
\* ThreadPool::~ThreadPool: returns once every enqueued task has run
PoolDone(tasks) == \A i \in Devices : tasks[i] = "done"

\* the elements the compute task of replica i writes
ComputeWrites(i) ==
  {<<"costs", i, 0>>} \cup {<<"graphGrads", i, j>> : j \in 1..Len(graphVals[i])}

\* pool.enqueue(task, idx)
EnqueueCompute ==
  /\ pc = "compute"
  /\ computeTask' = [computeTask EXCEPT ![idx] = "queued"]
  /\ IF idx < nDevices
     THEN /\ idx' = idx + 1
          /\ pc' = pc
     ELSE /\ idx' = 1
          /\ pc' = "computeJoin"
  /\ UNCHANGED <<nDevices, totalSize, movingAvg_, mvDecay_, first_, shardSize_,
                 shardTable, graphVals, graphGrads, params_, grads_, tmpTensors_,
                 paramsAvg_, scheduler_, numberOfBatches, reported, file, pos,
                 batches, costs, reduceTask, reducePos, saveIdx, saveRet, steps,
                 wrote, gradReads, optLog, avgLog, serialized, preBranch, validated,
                 loadCall, events>>

\* if(batch->size() > 0) { build; forward; costs[idx] = scalar; backward }
RunCompute(i) ==
  /\ pc # "undefined"
  /\ computeTask[i] = "queued"
  /\ computeTask' = [computeTask EXCEPT ![i] = "done"]
  /\ IF i \in batches
     THEN /\ costs' = [costs EXCEPT ![i] = CostOf(steps, i)]
          /\ graphGrads' = [graphGrads EXCEPT ![i] = Gradient(steps, i)]
          /\ wrote' = [wrote EXCEPT ![i] = @ \cup ComputeWrites(i)]
     ELSE UNCHANGED <<costs, graphGrads, wrote>>
  /\ UNCHANGED <<nDevices, totalSize, movingAvg_, mvDecay_, first_, shardSize_,
                 shardTable, graphVals, params_, grads_, tmpTensors_, paramsAvg_,
                 scheduler_, numberOfBatches, reported, file, pc, idx, pos, batches,
                 reduceTask, reducePos, saveIdx, saveRet, steps, gradReads, optLog,
                 avgLog, serialized, preBranch, validated, loadCall, events>>

\* mutant: the compute pool outlives its block
ComputeNoBarrier == TRUE

\* the closing brace of the compute block destroys its pool
ComputeBarrier == PoolDone(computeTask)

JoinCompute ==
  /\ pc = "computeJoin"
  /\ ComputeBarrier
  /\ pc' = "reduce"
  /\ idx' = 1
  /\ pos' = 0
  /\ wrote' = [i \in Devices |-> {}]
  /\ UNCHANGED <<nDevices, totalSize, movingAvg_, mvDecay_, first_, shardSize_,
                 shardTable, graphVals, graphGrads, params_, grads_, tmpTensors_,
                 paramsAvg_, scheduler_, numberOfBatches, reported, file, batches,
                 costs, computeTask, reduceTask, reducePos, saveIdx, saveRet, steps,
                 gradReads, optLog, avgLog, serialized, preBranch, validated,
                 loadCall, events>>

\* ------------------------------------------------------- the reduce phase
\* mutant: the offset is not advanced
NextPosStuck(k) == pos

\* pos += params_[idx]->size()
NextPos(k) == pos + Len(params_[k])

\* pool.enqueue(task, idx, pos)
EnqueueReduce ==
  /\ pc = "reduce"
  /\ reduceTask' = [reduceTask EXCEPT ![idx] = "queued"]
  /\ reducePos' = [reducePos EXCEPT ![idx] = pos]
  /\ pos' = NextPos(idx)
  /\ IF idx < nDevices
     THEN /\ idx' = idx + 1
          /\ pc' = pc
     ELSE /\ idx' = 1
          /\ pc' = "reduceJoin"
  /\ UNCHANGED <<nDevices, totalSize, movingAvg_, mvDecay_, first_, shardSize_,
                 shardTable, graphVals, graphGrads, params_, grads_, tmpTensors_,
                 paramsAvg_, scheduler_, numberOfBatches, reported, file, batches,
                 costs, computeTask, saveIdx, saveRet, steps, wrote, gradReads,
                 optLog, avgLog, serialized, preBranch, validated, loadCall, events>>

ShardLocs(name, k) == {<<name, k, j>> : j \in 1..Len(params_[k])}

\* grads_[idx]->set(0)
Zeroed(k) == [j \in 1..Len(grads_[k]) |-> RZero]

ReduceZero(k) ==
  /\ pc # "undefined"
  /\ reduceTask[k] = "queued"
  /\ reduceTask' = [reduceTask EXCEPT ![k] = "acc"]
  /\ grads_' = [grads_ EXCEPT ![k] = Zeroed(k)]
  /\ wrote' = [wrote EXCEPT ![k] = @ \cup ShardLocs("grads_", k)]
  /\ UNCHANGED <<nDevices, totalSize, movingAvg_, mvDecay_, first_, shardSize_,
                 shardTable, graphVals, graphGrads, params_, tmpTensors_, paramsAvg_,
                 scheduler_, numberOfBatches, reported, file, pc, idx, pos, batches,
                 costs, computeTask, reducePos, saveIdx, saveRet, steps, gradReads,
                 optLog, avgLog, serialized, preBranch, validated, loadCall, events>>

\* mutant: the emptiness test of the sub-batch is missing
ContributesAlways(i) == TRUE

\* if(batches[i]->size() > 0)
Contributes(i) == i \in batches

\* the loop over graphs_: subGrad = grads()->subtensor(pos, size);
\* tmpTensors_[idx]->copyFrom(subGrad); grads_[idx] += tmpTensors_[idx].
\* Result: the accumulator and the scratch buffer after graphs i..N.
RECURSIVE AccLoop(_, _, _, _)
AccLoop(k, i, acc, tmp) ==
  IF i > nDevices THEN [acc |-> acc, tmp |-> tmp]
  ELSE IF Contributes(i)
  THEN LET subGrad == Subtensor(graphGrads[i], reducePos[k], Len(params_[k]))
       IN  AccLoop(k, i + 1, [j \in 1..Len(acc) |-> RAdd(acc[j], subGrad[j])], subGrad)
  ELSE AccLoop(k, i + 1, acc, tmp)

ReduceAcc(k) ==
  /\ pc # "undefined"
  /\ reduceTask[k] = "acc"
  /\ reduceTask' = [reduceTask EXCEPT ![k] = "opt"]
  /\ LET r == AccLoop(k, 1, grads_[k], tmpTensors_[k])
     IN  /\ grads_' = [grads_ EXCEPT ![k] = r.acc]
         /\ tmpTensors_' = [tmpTensors_ EXCEPT ![k] = r.tmp]
  /\ gradReads' = gradReads \cup {<<k, i>> : i \in {d \in Devices : Contributes(d)}}
  /\ wrote' = [wrote EXCEPT ![k] = @ \cup
                 IF \E d \in Devices : Contributes(d)
                 THEN ShardLocs("tmpTensors_", k) \cup ShardLocs("grads_", k)
                 ELSE {}]
  /\ UNCHANGED <<nDevices, totalSize, movingAvg_, mvDecay_, first_, shardSize_,
                 shardTable, graphVals, graphGrads, params_, paramsAvg_, scheduler_,
                 numberOfBatches, reported, file, pc, idx, pos, batches, costs,
                 computeTask, reducePos, saveIdx, saveRet, steps, optLog, avgLog,
                 serialized, preBranch, validated, loadCall, events>>

\* mutant: the broadcast follows the optimizer at once
AfterOptBroadcast == "bcast"

\* the task's next statement after the optimizer: if(movingAvg_) ...
AfterOpt == IF movingAvg_ THEN "avg" ELSE "bcast"

\* mutant: the optimizer call is reached before the loop over graphs_
OptReadyEarly(k) == reduceTask[k] \in {"acc", "opt"}

\* the optimizer call follows the loop over graphs_
OptReady(k) == reduceTask[k] = "opt"

\* shardOpt_[idx]->update(params_[idx], grads_[idx])
ReduceOpt(k) ==
  /\ pc # "undefined"
  /\ OptReady(k)
  /\ reduceTask' = [reduceTask EXCEPT ![k] = AfterOpt]
  /\ params_' = [params_ EXCEPT ![k] = OptimizerUpdate(params_[k], grads_[k])]
  /\ optLog' = [optLog EXCEPT ![k] =
                  Append(@, [opt |-> k, param |-> k, grad |-> grads_[k],
                             before |-> params_[k],
                             read |-> {i \in Devices : <<k, i>> \in gradReads}])]
  /\ wrote' = [wrote EXCEPT ![k] = @ \cup ShardLocs("params_", k)]
  /\ UNCHANGED <<nDevices, totalSize, movingAvg_, mvDecay_, first_, shardSize_,
                 shardTable, graphVals, graphGrads, grads_, tmpTensors_, paramsAvg_,
                 scheduler_, numberOfBatches, reported, file, pc, idx, pos, batches,
                 costs, computeTask, reducePos, saveIdx, saveRet, steps, gradReads,
                 avgLog, serialized, preBranch, validated, loadCall, events>>

\* mutant: the configured decay without the warm-up term
DecayConfigured(b) == mvDecay_

\* decay = min(mvDecay_, (float)(batches + 1) / (float)(batches + 10))
Decay(b) == RMin(mvDecay_, RNorm(b + 1, b + 10))

\* Element(_1 = (decay * _1) + ((1.f - decay) * _2), paramsAvg, params)
UpdateMovingAverage(avg, params, b) ==
  [j \in 1..Len(avg) |->
     RAdd(RMul(Decay(b), avg[j]), RMul(RSub(ROne, Decay(b)), params[j]))]

\* mutant: the batch count that includes the running step
BatchesSeenNext == numberOfBatches + 1

\* scheduler_->numberOfBatches()
BatchesSeen == numberOfBatches

\* if(movingAvg_) updateMovingAverage(paramsAvg_[idx], params_[idx],
\*                                    scheduler_->numberOfBatches());
\* with no scheduler set the call dereferences a null pointer.
ReduceAvg(k) ==
  /\ pc # "undefined"
  /\ reduceTask[k] = "avg"
  /\ IF scheduler_ = "set"
     THEN /\ reduceTask' = [reduceTask EXCEPT ![k] = "bcast"]
          /\ paramsAvg_' = [paramsAvg_ EXCEPT ![k] =
                              UpdateMovingAverage(paramsAvg_[k], params_[k], BatchesSeen)]
          /\ avgLog' = [avgLog EXCEPT ![k] =
                          Append(@, [batches |-> BatchesSeen, old |-> paramsAvg_[k],
                                     params |-> params_[k]])]
          /\ wrote' = [wrote EXCEPT ![k] = @ \cup ShardLocs("paramsAvg_", k)]
          /\ pc' = pc
     ELSE /\ pc' = "undefined"
          /\ UNCHANGED <<reduceTask, paramsAvg_, avgLog, wrote>>
  /\ UNCHANGED <<nDevices, totalSize, movingAvg_, mvDecay_, first_, shardSize_,
                 shardTable, graphVals, graphGrads, params_, grads_, tmpTensors_,
                 scheduler_, numberOfBatches, reported, file, idx, pos, batches,
                 costs, computeTask, reducePos, saveIdx, saveRet, steps, gradReads,
                 optLog, serialized, preBranch, validated, loadCall, events>>

\* mutant: the broadcast reaches the first replica only
BroadcastPrimaryOnly == {1}

\* for(auto graph : graphs_)
BroadcastTargets == Devices

\* graph->params()->vals()->subtensor(pos, size)->copyFrom(params_[idx])
ReduceBcast(k) ==
  /\ pc # "undefined"
  /\ reduceTask[k] = "bcast"
  /\ reduceTask' = [reduceTask EXCEPT ![k] = "done"]
  /\ graphVals' = [r \in Devices |->
                     IF r \in BroadcastTargets
                     THEN CopyInto(graphVals[r], reducePos[k], params_[k])
                     ELSE graphVals[r]]
  /\ wrote' = [wrote EXCEPT ![k] = @ \cup
                 {<<"graphVals", r, reducePos[k] + j>> :
                    r \in BroadcastTargets, j \in 1..Len(params_[k])}]
  /\ UNCHANGED <<nDevices, totalSize, movingAvg_, mvDecay_, first_, shardSize_,
                 shardTable, graphGrads, params_, grads_, tmpTensors_, paramsAvg_,
                 scheduler_, numberOfBatches, reported, file, pc, idx, pos, batches,
                 costs, computeTask, reducePos, saveIdx, saveRet, steps, gradReads,
                 optLog, avgLog, serialized, preBranch, validated, loadCall, events>>

\* the closing brace of the reduce block destroys its pool
ReduceBarrier == PoolDone(reduceTask)

JoinReduce ==
  /\ pc = "reduceJoin"
  /\ ReduceBarrier
  /\ pc' = "post"
  /\ UNCHANGED <<nDevices, totalSize, movingAvg_, mvDecay_, first_, shardSize_,
                 shardTable, graphVals, graphGrads, params_, grads_, tmpTensors_,
                 paramsAvg_, scheduler_, numberOfBatches, reported, file, idx, pos,
                 batches, costs, computeTask, reduceTask, reducePos, saveIdx,
                 saveRet, steps, wrote, gradReads, optLog, avgLog, serialized,
                 preBranch, validated, loadCall, events>>

\* ------------------------------------------------ cost and the scheduler
\* cost = 0; for(auto c : costs) cost += c; cost = cost / costs.size()
StepCost == RNorm(SumSeq(costs), Len(costs))

\* if(scheduler_) scheduler_->update(cost, batch): the scheduler counts the batch
PostStep ==
  /\ pc = "post"
  /\ IF scheduler_ = "set"
     THEN /\ reported' = Append(reported, StepCost)
          /\ events' = Append(events, "update")
          /\ numberOfBatches' = numberOfBatches + 1
          /\ pc' = "saveCheck"
     ELSE /\ pc' = "done"
          /\ UNCHANGED <<reported, numberOfBatches, events>>
  /\ UNCHANGED <<nDevices, totalSize, movingAvg_, mvDecay_, first_, shardSize_,
                 shardTable, graphVals, graphGrads, params_, grads_, tmpTensors_,
                 paramsAvg_, scheduler_, file, idx, pos, batches, costs, computeTask,
                 reduceTask, reducePos, saveIdx, saveRet, steps, wrote, gradReads,
                 optLog, avgLog, serialized, preBranch, validated, loadCall>>

\* mutant: the validation test is the else-branch of the saving test
AfterSaveReturn == "done"

\* the statement of execute() that follows this->save()
AfterSave == "validateCheck"

\* if(scheduler_->saving()) this->save();
SaveCheck ==
  /\ pc = "saveCheck"
  /\ \E saving \in BOOLEAN :
       IF saving
       THEN /\ pc' = "saveFetch"
            /\ saveIdx' = 1
            /\ saveRet' = AfterSave
            /\ preBranch' = graphVals[1]
            /\ events' = events \o <<"saving", "save">>
       ELSE /\ pc' = "validateCheck"
            /\ events' = Append(events, "saving")
            /\ UNCHANGED <<saveIdx, saveRet, preBranch>>
  /\ UNCHANGED <<nDevices, totalSize, movingAvg_, mvDecay_, first_, shardSize_,
                 shardTable, graphVals, graphGrads, params_, grads_, tmpTensors_,
                 paramsAvg_, scheduler_, numberOfBatches, reported, file, idx, pos,
                 batches, costs, computeTask, reduceTask, reducePos, steps, wrote,
                 gradReads, optLog, avgLog, serialized, validated, loadCall>>

\* -------------------------------------------------------------------- save
\* save(final) saves graphs_[0]; save(graph, final) the replica that is graph
SaveCall ==
  /\ pc = "idle"
  /\ \E g \in Devices : 
       /\ saveIdx' = g
       /\ preBranch' = graphVals[g]
  /\ saveRet' = "idle"
  /\ pc' = "saveFetch"
  /\ UNCHANGED <<nDevices, totalSize, movingAvg_, mvDecay_, first_, shardSize_,
                 shardTable, graphVals, graphGrads, params_, grads_, tmpTensors_,
                 paramsAvg_, scheduler_, numberOfBatches, reported, file, idx, pos,
                 batches, costs, computeTask, reduceTask, reducePos, steps, wrote,
                 gradReads, optLog, avgLog, serialized, validated, loadCall, events>>

\* mutant: the first fetchParams copies the live shards
SaveFetchLive == params_

\* the tensors the first fetchParams of save() copies
SaveFetchSource == paramsAvg_

\* if(movingAvg_) fetchParams(graphs_[idx] vals, paramsAvg_): before the first
\* step paramsAvg_ is empty and params[idx] indexes an empty vector
SaveFetchAvg ==
  /\ pc = "saveFetch"
  /\ IF movingAvg_ /\ Len(paramsAvg_) = 0
     THEN /\ pc' = "undefined"
          /\ UNCHANGED graphVals
     ELSE /\ pc' = "saveWrite"
          /\ graphVals' = IF movingAvg_
                          THEN [graphVals EXCEPT ![saveIdx] = FetchParams(@, SaveFetchSource)]
                          ELSE graphVals
  /\ UNCHANGED <<nDevices, totalSize, movingAvg_, mvDecay_, first_, shardSize_,
                 shardTable, graphGrads, params_, grads_, tmpTensors_, paramsAvg_,
                 scheduler_, numberOfBatches, reported, file, idx, pos, batches,
                 costs, computeTask, reduceTask, reducePos, saveIdx, saveRet, steps,
                 wrote, gradReads, optLog, avgLog, serialized, preBranch, validated,
                 loadCall, events>>

\* builders_[idx]->save(graphs_[idx], ...): once with "overwrite" or final, else
\* the numbered copy and the model file; scheduler_->save(name)
SaveWrite ==
  /\ pc = "saveWrite"
  /\ \E overwrite \in BOOLEAN, final \in BOOLEAN :
       serialized' = IF overwrite \/ final
                     THEN <<graphVals[saveIdx]>>
                     ELSE <<graphVals[saveIdx], graphVals[saveIdx]>>
  /\ file' = [vals |-> graphVals[saveIdx],
              batches |-> IF scheduler_ = "set" THEN numberOfBatches ELSE file.batches]
  /\ pc' = "saveRestore"
  /\ UNCHANGED <<nDevices, totalSize, movingAvg_, mvDecay_, first_, shardSize_,
                 shardTable, graphVals, graphGrads, params_, grads_, tmpTensors_,
                 paramsAvg_, scheduler_, numberOfBatches, reported, idx, pos,
                 batches, costs, computeTask, reduceTask, reducePos, saveIdx,
                 saveRet, steps, wrote, gradReads, optLog, avgLog, preBranch,
                 validated, loadCall, events>>

\* mutant: the second fetchParams copies the shadow shards again
SaveRestoreShadow == paramsAvg_

\* the tensors the second fetchParams of save() copies back
SaveRestoreSource == params_

\* if(movingAvg_) fetchParams(graphs_[idx] vals, params_)
SaveRestore ==
  /\ pc = "saveRestore"
  /\ graphVals' = IF movingAvg_
                  THEN [graphVals EXCEPT ![saveIdx] = FetchParams(@, SaveRestoreSource)]
                  ELSE graphVals
  /\ pc' = "saveDone"
  /\ UNCHANGED <<nDevices, totalSize, movingAvg_, mvDecay_, first_, shardSize_,
                 shardTable, graphGrads, params_, grads_, tmpTensors_, paramsAvg_,
                 scheduler_, numberOfBatches, reported, file, idx, pos, batches,
                 costs, computeTask, reduceTask, reducePos, saveIdx, saveRet, steps,
                 wrote, gradReads, optLog, avgLog, serialized, preBranch, validated,
                 loadCall, events>>

\* save() returns, to its caller or into execute()
SaveReturn ==
  /\ pc = "saveDone"
  /\ pc' = saveRet
  /\ saveIdx' = 1
  /\ saveRet' = "idle"
  /\ serialized' = <<>>
  /\ preBranch' = <<>>
  /\ events' = IF saveRet = "idle" THEN events ELSE Append(events, "saved")
  /\ UNCHANGED <<nDevices, totalSize, movingAvg_, mvDecay_, first_, shardSize_,
                 shardTable, graphVals, graphGrads, params_, grads_, tmpTensors_,
                 paramsAvg_, scheduler_, numberOfBatches, reported, file, idx, pos,
                 batches, costs, computeTask, reduceTask, reducePos, steps, wrote,
                 gradReads, optLog, avgLog, validated, loadCall>>

\* --------------------------------------------------------------- validate
\* if(scheduler_->validating()) { ... }
ValidateCheck ==
  /\ pc = "validateCheck"
  /\ \E validating \in BOOLEAN :
       IF validating
       THEN /\ pc' = "valFetch"
            /\ preBranch' = graphVals[1]
            /\ events' = events \o <<"validating", "validate">>
       ELSE /\ pc' = "done"
            /\ events' = Append(events, "validating")
            /\ UNCHANGED preBranch
  /\ UNCHANGED <<nDevices, totalSize, movingAvg_, mvDecay_, first_, shardSize_,
                 shardTable, graphVals, graphGrads, params_, grads_, tmpTensors_,
                 paramsAvg_, scheduler_, numberOfBatches, reported, file, idx, pos,
                 batches, costs, computeTask, reduceTask, reducePos, saveIdx,
                 saveRet, steps, wrote, gradReads, optLog, avgLog, serialized,
                 validated, loadCall>>

\* if(movingAvg_) fetchParams(graphs_[0] vals, paramsAvg_)
ValFetchAvg ==
  /\ pc = "valFetch"
  /\ graphVals' = IF movingAvg_
                  THEN [graphVals EXCEPT ![1] = FetchParams(@, paramsAvg_)]
                  ELSE graphVals
  /\ pc' = "validate"
  /\ UNCHANGED <<nDevices, totalSize, movingAvg_, mvDecay_, first_, shardSize_,
                 shardTable, graphGrads, params_, grads_, tmpTensors_, paramsAvg_,
                 scheduler_, numberOfBatches, reported, file, idx, pos, batches,
                 costs, computeTask, reduceTask, reducePos, saveIdx, saveRet, steps,
                 wrote, gradReads, optLog, avgLog, serialized, preBranch, validated,
                 loadCall, events>>

\* scheduler_->validate(graphs_[0]): reads the graph's parameters
Validate ==
  /\ pc = "validate"
  /\ validated' = Append(validated, graphVals[1])
  /\ pc' = "valRestore"
  /\ UNCHANGED <<nDevices, totalSize, movingAvg_, mvDecay_, first_, shardSize_,
                 shardTable, graphVals, graphGrads, params_, grads_, tmpTensors_,
                 paramsAvg_, scheduler_, numberOfBatches, reported, file, idx, pos,
                 batches, costs, computeTask, reduceTask, reducePos, saveIdx,
                 saveRet, steps, wrote, gradReads, optLog, avgLog, serialized,
                 preBranch, loadCall, events>>

\* mutant: the second fetchParams copies the shadow shards again
ValRestoreShadow == paramsAvg_

\* the tensors the second fetchParams of the validation branch copies back
ValRestoreSource == params_

\* if(movingAvg_) fetchParams(graphs_[0] vals, params_)
ValRestore ==
  /\ pc = "valRestore"
  /\ graphVals' = IF movingAvg_
                  THEN [graphVals EXCEPT ![1] = FetchParams(@, ValRestoreSource)]
                  ELSE graphVals
  /\ pc' = "done"
  /\ events' = Append(events, "validated")
  /\ UNCHANGED <<nDevices, totalSize, movingAvg_, mvDecay_, first_, shardSize_,
                 shardTable, graphGrads, params_, grads_, tmpTensors_, paramsAvg_,
                 scheduler_, numberOfBatches, reported, file, idx, pos, batches,
                 costs, computeTask, reduceTask, reducePos, saveIdx, saveRet, steps,
                 wrote, gradReads, optLog, avgLog, serialized, preBranch, validated,
                 loadCall>>

\* execute() returns: its locals (batches, costs, the pools) go out of scope
Return ==
  /\ pc = "done"
  /\ pc' = "idle"
  /\ idx' = 0
  /\ pos' = 0
  /\ batches' = {}
  /\ costs' = [i \in Devices |-> 0]
  /\ computeTask' = [i \in Devices |-> "none"]
  /\ reduceTask' = [i \in Devices |-> "none"]
  /\ reducePos' = [i \in Devices |-> 0]
  /\ wrote' = [i \in Devices |-> {}]
  /\ gradReads' = {}
  /\ optLog' = [k \in Devices |-> <<>>]
  /\ avgLog' = [k \in Devices |-> <<>>]
  /\ reported' = <<>>
  /\ preBranch' = <<>>
  /\ validated' = <<>>
  /\ events' = <<>>
  /\ UNCHANGED <<nDevices, totalSize, movingAvg_, mvDecay_, first_, shardSize_,
                 shardTable, graphVals, graphGrads, params_, grads_, tmpTensors_,
                 paramsAvg_, scheduler_, numberOfBatches, file, saveIdx, saveRet,
                 steps, serialized, loadCall>>

\* ---------------------------------------------------------- specification
Next ==
  \/ SetScheduler
  \/ Load
  \/ LoadReturn
  \/ Update
  \/ BuildGraph
  \/ InitShards
  \/ InitAvg
  \/ EnqueueCompute
  \/ \E i \in Devices : RunCompute(i)
  \/ JoinCompute
  \/ EnqueueReduce
  \/ \E k \in Devices : ReduceZero(k)
  \/ \E k \in Devices : ReduceAcc(k)
  \/ \E k \in Devices : ReduceOpt(k)
  \/ \E k \in Devices : ReduceAvg(k)
  \/ \E k \in Devices : ReduceBcast(k)
  \/ JoinReduce
  \/ PostStep
  \/ SaveCheck
  \/ SaveCall
  \/ SaveFetchAvg
  \/ SaveWrite
  \/ SaveRestore
  \/ SaveReturn
  \/ ValidateCheck
  \/ ValFetchAvg
  \/ Validate
  \/ ValRestore
  \/ Return

Spec == Init /\ [][Next]_vars


\* ------------------------------------- the shard table as a pure function
\* The table depends on the parameter count and the device count alone.  This
\* specification draws both, the parameter counts also from around 2^24, where
\* the float division starts to round, and builds the table without buffers.
ShardTotals ==
  (1..MaxShardParams)
    \cup {Pow2(FloatMantissaBits) + d : d \in (0 - 1)..MaxOver}
    \cup {2 * Pow2(FloatMantissaBits) + d : d \in (0 - 1)..MaxOver}

InitShardTable ==
  /\ nDevices \in 1..MaxShardDevices
  /\ totalSize \in ShardTotals
  /\ movingAvg_ = FALSE
  /\ mvDecay_ = <<1, 1>>
  /\ ConstructedState
  /\ file = [vals |-> <<>>, batches |-> 0]

BuildShardTable ==
  /\ pc = "idle"
  /\ first_
  /\ shardSize_' = ShardSizeOf(totalSize, nDevices)
  /\ shardTable' = ShardTable(totalSize, nDevices)
  /\ first_' = FALSE
  /\ UNCHANGED <<nDevices, totalSize, movingAvg_, mvDecay_, graphVals, graphGrads,
                 params_, grads_, tmpTensors_, paramsAvg_, scheduler_,
                 numberOfBatches, reported, file, pc, idx, pos, batches, costs,
                 computeTask, reduceTask, reducePos, saveIdx, saveRet, steps, wrote,
                 gradReads, optLog, avgLog, serialized, preBranch, validated,
                 loadCall, events>>

NextShardTable == BuildShardTable

SpecShardTable == InitShardTable /\ [][NextShardTable]_vars

\* ----------------------------------------------------------------- claims
AllIdentical == \A i \in Devices : graphVals[i] = graphVals[1]

\* C1: when a call to update() has completed (the step and the save and
\* validation it triggered), all replicas' parameter buffers are identical.
C1_ReplicasIdenticalAfterUpdate == pc = "done" => AllIdentical

\* a second step with replica 1's sub-batch empty, validated on the shadow
C1_Witness ==
  /\ pc = "done"
  /\ nDevices = 3
  /\ totalSize = 3
  /\ steps = 2
  /\ batches = {2}
  /\ movingAvg_
  /\ validated # <<>>
  /\ graphVals[2] # InitVals(1)

\* the half-open ranges of the table
ShardEnd(k) == shardTable[k].pos + shardTable[k].size

\* C2: the shard ranges built on the first step are pairwise disjoint and
\* their union is exactly [0, T): every index lies in exactly one shard.
C2_ShardsPartition ==
  shardTable # <<>> =>
    /\ \A k \in Devices : shardTable[k].pos >= 0 /\ ShardEnd(k) <= totalSize
    /\ \A k, l \in Devices :
         k < l => \/ shardTable[k].size = 0
                  \/ shardTable[l].size = 0
                  \/ ShardEnd(k) <= shardTable[l].pos
                  \/ ShardEnd(l) <= shardTable[k].pos
    /\ SumSeq([k \in Devices |-> shardTable[k].size]) = totalSize


\* element-wise sum of two vectors of one length
VecAdd(x, y) == [j \in 1..Len(x) |-> RAdd(x[j], y[j])]

\* the sum of the slices [pos_k, pos_k + size_k) of the gradient buffers of the
\* replicas in rs, by the offsets of the shard table
RECURSIVE SliceSum(_, _)
SliceSum(k, rs) ==
  IF rs = {} THEN [j \in 1..shardTable[k].size |-> RZero]
  ELSE LET r == CHOOSE x \in rs : TRUE
       IN  VecAdd(SliceSum(k, rs \ {r}),
                  Subtensor(graphGrads[r], shardTable[k].pos, shardTable[k].size))

\* C3: the gradient handed to shard k's optimizer is the element-wise sum of the
\* slices [pos_k, pos_k + size_k) of exactly the replicas whose sub-batch of the
\* step is non-empty; an empty replica's gradient buffer is not read, and
\* nothing an earlier step left in the accumulator is included.
C3_GradientIsSumOfNonEmpty ==
  /\ \A k \in Devices : \A n \in 1..Len(optLog[k]) :
       /\ optLog[k][n].grad = SliceSum(k, batches)
       /\ optLog[k][n].read = batches
  /\ \A kr \in gradReads : kr[2] \in batches

\* second step, replica 1 empty now and still holding its gradient of step 1
C3_Witness ==
  /\ pc = "done"
  /\ nDevices = 3
  /\ totalSize = 3
  /\ steps = 2
  /\ batches = {2, 3}
  /\ graphGrads[1] = Gradient(1, 1)
  /\ \A k \in Devices : Len(optLog[k]) = 1

\* C4: when a step validates with moving-average enabled, replica 0 holds the
\* full shadow vector while validate() runs, and when the validation branch is
\* over replica 0's buffer equals what it was when the branch started, which
\* are the live shard values.
C4_ValidationIsolation ==
  movingAvg_ =>
    /\ pc = "validate" => graphVals[1] = Concat(paramsAvg_)
    /\ \A n \in 1..Len(validated) : validated[n] = Concat(paramsAvg_)
    /\ (pc = "done" /\ validated # <<>>) =>
         /\ graphVals[1] = preBranch
         /\ graphVals[1] = Concat(params_)

\* a validation whose shadow differs from the live parameters
C4_Witness ==
  /\ pc = "done"
  /\ movingAvg_
  /\ nDevices = 3
  /\ totalSize = 2
  /\ validated # <<>>
  /\ validated # <<graphVals[1]>>
  /\ graphVals[1] = preBranch


\* C5 as stated: with the configured decay 1.0 a shadow shard, once
\* initialised, never changes.
C5_ShadowFrozen ==
  [][(movingAvg_ /\ mvDecay_ = ROne /\ Len(paramsAvg_) > 0)
       => paramsAvg_' = paramsAvg_]_vars

\* C5 amended: with the configured decay 1.0 the decay a step applies is the
\* warm-up term (b+1)/(b+10) of the scheduler's batch count b, so the step
\* moves every shadow element to ((b+1)*shadow + 9*param)/(b+10), and the
\* element keeps its value only where the updated live parameter equals it.
C5_ShadowFollowsWarmUp ==
  (movingAvg_ /\ mvDecay_ = ROne) =>
    \A k \in Devices :
      /\ Len(avgLog[k]) <= 1
      /\ \A n \in 1..Len(avgLog[k]) :
           LET e == avgLog[k][n]
           IN  \A j \in 1..Len(paramsAvg_[k]) :
                 /\ paramsAvg_[k][j] =
                      RAdd(RMul(RNorm(e.batches + 1, e.batches + 10), e.old[j]),
                           RMul(RNorm(9, e.batches + 10), e.params[j]))
                 /\ (paramsAvg_[k][j] = e.old[j]) <=> (e.params[j] = e.old[j])

\* a shadow shard that a step with decay 1.0 has changed
C5_Witness ==
  /\ movingAvg_
  /\ mvDecay_ = ROne
  /\ steps = 2
  /\ \E k \in Devices :
       /\ Len(avgLog[k]) = 1
       /\ paramsAvg_[k] # avgLog[k][1].old

\* the sum and the number of the costs of the non-empty replicas
NonEmptyCostSum == SumSeq([i \in Devices |-> IF i \in batches THEN costs[i] ELSE 0])

\* C6: when some sub-batches of a step are empty, the cost reported to the
\* scheduler is the arithmetic mean of the costs of the non-empty replicas only.
C6_CostIsMeanOfNonEmpty ==
  \A n \in 1..Len(reported) :
    (batches # Devices /\ batches # {}) =>
      reported[n] = RNorm(NonEmptyCostSum, Cardinality(batches))

\* positions of execute() after the reduce block
AfterReduce ==
  {"post", "saveCheck", "validateCheck", "valFetch", "validate", "valRestore", "done"}
    \cup (IF saveRet # "idle"
          THEN {"saveFetch", "saveWrite", "saveRestore", "saveDone"}
          ELSE {})

\* C7: no reduce task is enqueued or started before all N compute tasks of the
\* step have completed, and the cost aggregation and the scheduler callbacks
\* do not start before all N reduce tasks have completed.
C7_PhaseBarriers ==
  /\ (\E k \in Devices : reduceTask[k] # "none") =>
       \A i \in Devices : computeTask[i] = "done"
  /\ pc \in AfterReduce => \A k \in Devices : reduceTask[k] = "done"

\* three reduce tasks at three different points, all compute tasks done
C7_Witness ==
  /\ nDevices = 3
  /\ pc = "reduceJoin"
  /\ reduceTask[1] = "done"
  /\ reduceTask[2] = "opt"
  /\ reduceTask[3] = "queued"
  /\ \A i \in Devices : computeTask[i] = "done"

\* what the compute task of replica i may write
ComputeOwned(i, loc) == loc[1] \in {"costs", "graphGrads"} /\ loc[2] = i

\* what the reduce task of shard k may write
ReduceOwned(k, loc) ==
  \/ loc[1] \in {"params_", "grads_", "tmpTensors_", "paramsAvg_"} /\ loc[2] = k
  \/ /\ loc[1] = "graphVals"
     /\ loc[3] > shardTable[k].pos
     /\ loc[3] <= ShardEnd(k)

\* C8: within one phase no two tasks write the same buffer element: compute
\* task i writes only replica i's gradient buffer and cost slot i; reduce task
\* k writes only shard k's buffers and, in each replica's parameter buffer,
\* only the range [pos_k, pos_k + size_k).
C8_DisjointWrites ==
  /\ \A i, k \in Devices : i # k => wrote[i] \cap wrote[k] = {}
  /\ pc \in {"compute", "computeJoin"} =>
       \A i \in Devices : \A loc \in wrote[i] : ComputeOwned(i, loc)
  /\ pc \in {"reduce", "reduceJoin"} \cup AfterReduce =>
       \A k \in Devices : \A loc \in wrote[k] : ReduceOwned(k, loc)

\* all three reduce tasks have broadcast their shard
C8_Witness ==
  /\ nDevices = 3
  /\ totalSize = 3
  /\ pc = "reduceJoin"
  /\ movingAvg_
  /\ batches = {1, 3}
  /\ \A k \in Devices :
       /\ reduceTask[k] = "done"
       /\ \E loc \in wrote[k] : loc[1] = "graphVals" /\ loc[2] # k

\* C9: in every step each shard's optimizer is invoked exactly once, on that
\* shard's own parameter buffer, and only after the gradient slices of all
\* replicas with non-empty sub-batches have been added to the accumulator.
C9_OptimizerOncePerShard ==
  \A k \in Devices :
    /\ Len(optLog[k]) <= 1
    /\ reduceTask[k] \in {"avg", "bcast", "done"} => Len(optLog[k]) = 1
    /\ reduceTask[k] \in {"queued", "acc", "opt"} => Len(optLog[k]) = 0
    /\ pc = "done" => Len(optLog[k]) = 1
    /\ \A n \in 1..Len(optLog[k]) :
         /\ optLog[k][n].opt = k
         /\ optLog[k][n].param = k
         /\ optLog[k][n].read = batches

\* a completed step in which every shard's optimizer ran on a partial batch
C9_Witness ==
  /\ pc = "done"
  /\ nDevices = 3
  /\ steps = 2
  /\ batches = {1, 3}
  /\ \A k \in Devices : Len(optLog[k]) = 1 /\ optLog[k][1].read = {1, 3}

\* positions between the start of the compute phase and the end of the broadcast
StepWindow == {"compute", "computeJoin", "reduce", "reduceJoin"}

CeilDiv(a, b) == (a + b - 1) \div b

Max(a, b) == IF a >= b THEN a ELSE b

\* C11 as stated: every shard with index below N-1 has size exactly ceil(T/N),
\* and only the last shard may be smaller.
C11_OnlyLastSmaller ==
  shardTable # <<>> =>
    /\ \A k \in 1..(nDevices - 1) : shardTable[k].size = CeilDiv(totalSize, nDevices)
    /\ shardTable[nDevices].size <= CeilDiv(totalSize, nDevices)

\* C11 amended: with S the shard size the first step computed, shard k (from 0)
\* has size min(S, max(0, T - k*S)): full shards first, then at most one
\* partial shard, then empty shards, so shards before the last may be smaller
\* than S too; and S is ceil(T/N) for every T up to 2^24.
C11_FullThenRemainder ==
  shardTable # <<>> =>
    /\ \A k \in Devices :
         shardTable[k].size = Min(shardSize_, Max(0, totalSize - (k - 1) * shardSize_))
    /\ \A k \in Devices :
         shardTable[k].size < shardSize_ =>
           \A l \in Devices : l > k => shardTable[l].size = 0
    /\ totalSize <= Pow2(FloatMantissaBits) =>
         shardSize_ = CeilDiv(totalSize, nDevices)

\* five parameters on four devices: sizes 2, 2, 1, 0
C11_Witness ==
  /\ shardTable # <<>>
  /\ nDevices = 4
  /\ totalSize = 5
  /\ shardTable[3].size = 1
  /\ shardTable[4].size = 0


\* positions inside the first_ block of execute()
InitBlock == {"build", "shards", "avg"}

\* the shards and shadow shards there are once the first_ block is done
ShardsInPlace ==
  /\ Len(shardTable) = nDevices
  /\ Len(params_) = nDevices
  /\ Len(grads_) = nDevices
  /\ Len(tmpTensors_) = nDevices
  /\ Len(paramsAvg_) = (IF movingAvg_ THEN nDevices ELSE 0)
  /\ \A k \in Devices :
       /\ Len(params_[k]) = shardTable[k].size
       /\ Len(grads_[k]) = shardTable[k].size
       /\ movingAvg_ => Len(paramsAvg_[k]) = shardTable[k].size
       /\ reduceTask[k] # "none" => reducePos[k] = shardTable[k].pos

\* C12: the shard table is built by the first call to update() and never
\* again: the first_ block is entered by the first call only, from then on
\* there are exactly N shards (and N shadow shards with moving-average
\* enabled), and no later step changes a shard's offset or size.
C12_ShardTableBuiltOnce ==
  /\ [](pc \in InitBlock => steps = 1)
  /\ [](~first_ => ShardsInPlace)
  /\ [][shardTable # <<>> => (shardTable' = shardTable /\ shardSize_' = shardSize_)]_vars
  /\ [][~first_ =>
          \A k \in Devices :
            /\ Len(params_'[k]) = Len(params_[k])
            /\ movingAvg_ => Len(paramsAvg_'[k]) = Len(paramsAvg_[k])]_vars

\* a second step has completed on three devices whose last shard is empty
C12_Witness ==
  /\ pc = "done"
  /\ steps = 2
  /\ nDevices = 3
  /\ totalSize = 2
  /\ movingAvg_
  /\ ~first_
  /\ shardTable[3].size = 0
  /\ \A k \in Devices : Len(optLog[k]) = 1


\* C13 as stated: load() changes nothing when reload is disabled or no
\* checkpoint file exists; otherwise it restores the scheduler state and loads
\* the checkpoint into every one of the N replicas.
C13_LoadRestoresAll ==
  pc = "loaded" =>
    LET e == loadCall[1]
    IN  IF e.noReload \/ ~e.exists
        THEN numberOfBatches = e.batches /\ graphVals = e.vals
        ELSE /\ numberOfBatches = file.batches
             /\ \A i \in Devices : file.vals # <<>> => graphVals[i] = file.vals

\* C13 amended: as stated, except that the scheduler state is restored only
\* if a scheduler has been set; with none set the replicas are loaded and no
\* scheduler state is restored.
C13_LoadRestoresReplicas ==
  pc = "loaded" =>
    LET e == loadCall[1]
    IN  IF e.noReload \/ ~e.exists
        THEN numberOfBatches = e.batches /\ graphVals = e.vals
        ELSE /\ scheduler_ = "set" => numberOfBatches = file.batches
             /\ scheduler_ = "null" => numberOfBatches = e.batches
             /\ \A i \in Devices : file.vals # <<>> => graphVals[i] = file.vals

\* a load() that has restored the scheduler and three replicas from the file
C13_Witness ==
  /\ pc = "loaded"
  /\ ~loadCall[1].noReload
  /\ loadCall[1].exists
  /\ scheduler_ = "set"
  /\ nDevices = 3
  /\ loadCall[1].batches # file.batches
  /\ numberOfBatches = file.batches
  /\ \A i \in Devices : loadCall[1].vals[i] = <<>> /\ graphVals[i] = file.vals


\* replica r's parameters on shard k's range [pos_k, pos_k + size_k)
ReplicaSlice(r, k) == Subtensor(graphVals[r], shardTable[k].pos, shardTable[k].size)

\* C14: each reduce task zeroes the accumulator, then accumulates the replicas'
\* gradient slices, then applies the optimizer, then updates the shadow (with
\* moving-average enabled), then broadcasts: the accumulator is zero before
\* the slices are added and complete before the optimizer runs, the shadow
\* update reads the parameters the optimizer left, and the replicas hold the
\* pre-update values on the shard's range until the broadcast and the
\* post-update values after it.
C14_ReduceTaskOrder ==
  pc \in {"reduce", "reduceJoin", "post"} =>
    \A k \in Devices :
      /\ reduceTask[k] = "acc" => grads_[k] = [j \in 1..shardTable[k].size |-> RZero]
      /\ reduceTask[k] = "opt" => grads_[k] = SliceSum(k, batches)
      /\ reduceTask[k] \in {"queued", "acc", "opt"} =>
           /\ Len(optLog[k]) = 0
           /\ Len(avgLog[k]) = 0
           /\ \A r \in Devices : ReplicaSlice(r, k) = params_[k]
      /\ reduceTask[k] \in {"avg", "bcast", "done"} =>
           /\ Len(optLog[k]) = 1
           /\ optLog[k][1].grad = SliceSum(k, batches)
           /\ params_[k] = [j \in 1..shardTable[k].size |->
                              RSub(optLog[k][1].before[j], optLog[k][1].grad[j])]
      /\ reduceTask[k] = "avg" => Len(avgLog[k]) = 0
      /\ reduceTask[k] \in {"bcast", "done"} =>
           /\ Len(avgLog[k]) = (IF movingAvg_ THEN 1 ELSE 0)
           /\ \A n \in 1..Len(avgLog[k]) : avgLog[k][n].params = params_[k]
      /\ reduceTask[k] \in {"avg", "bcast"} =>
           \A r \in Devices : ReplicaSlice(r, k) = optLog[k][1].before
      /\ reduceTask[k] = "done" =>
           \A r \in Devices : ReplicaSlice(r, k) = params_[k]

\* three reduce tasks at three points of the order, the optimizer of shard 1
\* having changed its parameters
C14_Witness ==
  /\ pc = "reduceJoin"
  /\ nDevices = 3
  /\ totalSize = 3
  /\ movingAvg_
  /\ batches = {1, 3}
  /\ reduceTask = <<"done", "bcast", "avg">>
  /\ optLog[1][1].before # params_[1]
  /\ graphVals[2][1] = params_[1][1]


\* the scheduler's batch count as it stood when the running step started: the
\* step's scheduler update, once made, has added one
StepStartBatches == IF events # <<>> THEN numberOfBatches - 1 ELSE numberOfBatches

\* min(configured decay, (b+1)/(b+10))
WarmUpDecay(b) ==
  IF (b + 1) * mvDecay_[2] < mvDecay_[1] * (b + 10) THEN <<b + 1, b + 10>> ELSE mvDecay_

\* C15: every shadow update of a step uses the decay min(configuredDecay,
\* (b+1)/(b+10)) with b the scheduler's batch count before the step's
\* scheduler update, the same b for all shards; with b = 0 the decay is
\* min(configuredDecay, 1/10), and the decay never exceeds configuredDecay.
C15_DecayFromBatchCount ==
  \A k \in Devices : \A n \in 1..Len(avgLog[k]) :
    LET e == avgLog[k][n]
        d == WarmUpDecay(e.batches)
    IN  /\ e.batches = StepStartBatches
        /\ \A j \in 1..Len(paramsAvg_[k]) :
             paramsAvg_[k][j] =
               RNorm(d[1] * e.old[j][1] * e.params[j][2]
                       + (d[2] - d[1]) * e.params[j][1] * e.old[j][2],
                     d[2] * e.old[j][2] * e.params[j][2])
        /\ d[1] * mvDecay_[2] <= mvDecay_[1] * d[2]
        /\ e.batches = 0 =>
             d = (IF mvDecay_[1] * 10 < mvDecay_[2] THEN mvDecay_ ELSE <<1, 10>>)

\* the second step of a run with configured decay 1.0: all three shadow shards
\* updated with b = 1 after the scheduler has counted the step
C15_Witness ==
  /\ pc = "done"
  /\ steps = 2
  /\ nDevices = 3
  /\ totalSize = 3
  /\ movingAvg_
  /\ mvDecay_ = <<1, 1>>
  /\ numberOfBatches = 2
  /\ \A k \in Devices :
       /\ Len(avgLog[k]) = 1
       /\ avgLog[k][1].batches = 1
       /\ paramsAvg_[k] # avgLog[k][1].old


\* the parameters replica 0 can start a run with: its builder's, or the checkpoint's
InitialParams == {InitVals(1), FileInit.vals}

\* C16: with moving-average enabled, from the end of the first step's
\* initialisation until shard k's optimizer has run, shadow shard k has the
\* length and the contents of live shard k, which are replica 0's initial
\* parameters on [pos_k, pos_k + size_k).
C16_ShadowInitialised ==
  (movingAvg_ /\ steps = 1 /\ pc \in StepWindow) =>
    \A k \in Devices :
      reduceTask[k] \in {"none", "queued", "acc", "opt"} =>
        /\ Len(paramsAvg_[k]) = Len(params_[k])
        /\ Len(paramsAvg_[k]) = shardTable[k].size
        /\ paramsAvg_[k] = params_[k]
        /\ paramsAvg_[k] = ReplicaSlice(1, k)
        /\ \E v \in InitialParams :
             paramsAvg_[k] = Subtensor(v, shardTable[k].pos, shardTable[k].size)

\* the first step's initialisation is over on three devices and two
\* parameters loaded from the checkpoint; the third shard is empty
C16_Witness ==
  /\ pc = "compute"
  /\ idx = 1
  /\ steps = 1
  /\ ~first_
  /\ movingAvg_
  /\ nDevices = 3
  /\ totalSize = 2
  /\ graphVals[1] = FileInit.vals
  /\ paramsAvg_ = <<<<graphVals[1][1]>>, <<graphVals[1][2]>>, <<>>>>


\* the callback sequences of a complete step with a scheduler: the update,
\* the saving test (and a save), the validating test (and a validation)
StepEvents ==
  {<<"update", "saving">> \o sv \o <<"validating">> \o vl :
     sv \in {<<>>, <<"save", "saved">>}, vl \in {<<>>, <<"validate", "validated">>}}

IsPrefix(a, b) == Len(a) <= Len(b) /\ SubSeq(b, 1, Len(a)) = a

\* C17: the scheduler update comes after the reduce phase and before the
\* saving and validating tests; each test is made once per step; a save the
\* step triggers has returned before the validating test is made; and with no
\* scheduler set a step makes no update, save or validation.
C17_CallbackOrder ==
  /\ \E f \in StepEvents : IsPrefix(events, f)
  /\ events # <<>> =>
       /\ scheduler_ = "set"
       /\ Len(reported) = 1
       /\ \A k \in Devices : reduceTask[k] = "done"
  /\ pc \in (StepWindow \cup InitBlock \cup {"post"}) => events = <<>> /\ reported = <<>>
  /\ pc = "saveCheck" => events = <<"update">>
  /\ pc = "validateCheck" => events[Len(events)] \in {"saving", "saved"}
  /\ (pc \in {"saveFetch", "saveWrite", "saveRestore", "saveDone"} /\ saveRet # "idle") =>
       events = <<"update", "saving", "save">>
  /\ pc \in {"valFetch", "validate", "valRestore"} => events[Len(events)] = "validate"
  /\ pc = "done" =>
       IF scheduler_ = "set"
       THEN events \in StepEvents
       ELSE events = <<>> /\ reported = <<>> /\ validated = <<>>

\* a step that reported its cost, saved and then validated
C17_Witness ==
  /\ pc = "done"
  /\ nDevices = 3
  /\ steps = 2
  /\ Len(reported) = 1
  /\ Len(validated) = 1
  /\ events = <<"update", "saving", "save", "saved", "validating", "validate", "validated">>


\* C18: once fetchParams has run, the destination offset it used for shard k,
\* k times ceil(T/N), is the offset pos_k of the shard table and of the
\* reduce phase, and the range it addressed lies within [0, T].
C18_FetchOffsetsAreShardOffsets ==
  (movingAvg_ /\ pc \in {"saveWrite", "saveRestore", "saveDone", "validate", "valRestore"}) =>
    \A k \in Devices :
      /\ FetchPos(k) = (k - 1) * CeilDiv(totalSize, nDevices)
      /\ FetchPos(k) = shardTable[k].pos
      /\ FetchPos(k) + shardTable[k].size <= totalSize

\* C19: in a save() after the first step with moving-average enabled, every
\* parameter vector handed to the serializer carries on each shard's range
\* that shard's shadow values, and when save() returns the saved replica's
\* buffer is what it was when save() was called, the live shard values.
C19_SaveWritesShadow ==
  (movingAvg_ /\ ~first_) =>
    /\ pc \in {"saveRestore", "saveDone"} =>
         /\ Len(serialized) >= 1
         /\ \A n \in 1..Len(serialized) :
              /\ Len(serialized[n]) = totalSize
              /\ \A k \in Devices :
                   Subtensor(serialized[n], shardTable[k].pos, shardTable[k].size)
                     = paramsAvg_[k]
    /\ pc = "saveDone" =>
         /\ graphVals[saveIdx] = preBranch
         /\ \A k \in Devices :
              Subtensor(graphVals[saveIdx], shardTable[k].pos, shardTable[k].size)
                = params_[k]

\* a save(graph) of the second replica between two steps that wrote the
\* numbered copy and the model file, both with the shadow values
C19_Witness ==
  /\ pc = "saveDone"
  /\ saveRet = "idle"
  /\ movingAvg_
  /\ ~first_
  /\ nDevices = 3
  /\ totalSize = 3
  /\ saveIdx = 2
  /\ Len(serialized) = 2
  /\ serialized[1] # graphVals[2]
  /\ graphVals[2] = preBranch

\* C20: fetchParams is reached, through save() or the validation branch with
\* moving-average enabled, only when the first update() has created the shard
\* table, the shards and the shadow shards.
C20_FetchOnlyAfterInit ==
  (movingAvg_ /\ pc \in {"saveFetch", "valFetch"}) =>
    /\ Len(shardTable) = nDevices
    /\ Len(params_) = nDevices
    /\ Len(paramsAvg_) = nDevices

====
